---- MODULE Spec2Model ----
(***************************************************************************)
(* Convergence engine of compose-cli (pkg/compose/convergence.go and       *)
(* pkg/compose/restart.go): scale reconciliation, recreate decision and    *)
(* execution, dependency ordered execution and dependency condition waits. *)
(*                                                                         *)
(* Every runtime API call (create, inspect, stop, rename, remove, start,   *)
(* restart, network connect) is one atomic step; the goroutines of an      *)
(* errgroup interleave at these calls.                                     *)
(***************************************************************************)
EXTENDS Integers, Sequences, FiniteSets, TLC

(***************************************************************************)
(* Bounds of the model.                                                    *)
(***************************************************************************)
\* largest value of the scale and deploy-replicas fields
MaxScale == 2
\* number of convergence passes of one behaviour
MaxPasses == 2

(***************************************************************************)
(* Program constants.                                                      *)
(***************************************************************************)
extLifecycle == "x-lifecycle"
forceRecreate == "force_recreate"
RecreateNever == "never"
RecreateDiverged == "diverged"
RecreateForce == "force"
ContainerRunning == "running"
ContainerCreated == "created"
ContainerRestarting == "restarting"
ContainerExited == "exited"
ContainerPaused == "paused"
ServiceConditionStarted == "service_started"
ServiceConditionHealthy == "service_healthy"
ServiceConditionCompletedSuccessfully == "service_completed_successfully"
\* moby.Healthy; the empty string is a container without a healthcheck
Healthy == "healthy"
Unhealthy == "unhealthy"
\* Deploy == nil or Deploy.Replicas == nil: the empty set; else {replicas}
NoReplicas == {}

VARIABLES
    project,    \* *types.Project: service name -> ServiceConfig
    rt,         \* the runtime's containers (set of records)
    nextID,     \* next container ID the runtime hands out
    cState,     \* ContainerState of the operation's context: Seq(Container)
    recreate,   \* recreate policy of the running operation
    status,     \* executor: service -> "pending" | "running" | "done" | "failed"
    calls,      \* service -> number of callback invocations in this operation
    eg,         \* service -> Seq(task): the errgroup of the service's callback
    conv,       \* service -> what the last ensureService of the pass observed
    apiLog,     \* runtime calls issued in this operation: set of Call records
    events,     \* progress events written in this operation: set of <<name, text>>
    pass,       \* number of the running operation
    fresh,      \* the operation took its snapshot from the runtime at its start
    repeat,     \* the operation repeats the previous one with unchanged inputs
    prevOk,     \* service -> the previous ensureScale ran and all its tasks succeeded
    assigned,   \* service -> every container number ever given to a container
    opts,       \* options.Services of Restart
    wait,       \* waitDependencies: dependency -> the goroutine polling it
    wd          \* waitDependencies: "" while in eg.Wait(), then "nil" or "err"

vars == <<project, rt, nextID, cState, recreate, status, calls, eg, conv, apiLog,
          events, pass, fresh, repeat, prevOk, assigned, opts, wait, wd>>

Services == DOMAIN project

(***************************************************************************)
(* Containers and names.                                                   *)
(***************************************************************************)
\* a container name: either an explicit container_name (fixed), or
\* "<project>_<service>_<number>"; tmp is the ID prefix of a temporary name
NoName == [fixed |-> "", svc |-> "", num |-> 0, tmp |-> 0]

NoContainer ==
    [ID |-> 0, Service |-> "", Number |-> 0, Name |-> NoName, Hash |-> "",
     State |-> "", OneOff |-> FALSE, Health |-> "", ExitCode |-> 0]

getContainerNameUnnumbered(service, number) ==
    [fixed |-> service.ContainerName, svc |-> service.Name, num |-> 1, tmp |-> 0]

\* lines 136-142
getContainerName(service, number) ==
    IF service.ContainerName # ""
    THEN [fixed |-> service.ContainerName, svc |-> "", num |-> 0, tmp |-> 0]
    ELSE [fixed |-> "", svc |-> service.Name, num |-> number, tmp |-> 0]

\* the container's name as the snapshot holds it
getCanonicalContainerName(c) == c.Name

getContainerProgressName(c) == <<"Container", getCanonicalContainerName(c)>>

\* fmt.Sprintf("%s_%s", container.ID[:12], name)
tmpName(c, name) == [name EXCEPT !.tmp = c.ID]

isService(name, c) == c.Service = name
isNotOneOff(c) == ~c.OneOff

filter(seq, P(_)) == SelectSeq(seq, P)

IDs(S) == {c.ID : c \in S}
Range(seq) == {seq[i] : i \in 1..Len(seq)}

MaxOf(S) == CHOOSE m \in S : \A n \in S : n <= m
MinOf(S) == CHOOSE m \in S : \A n \in S : m <= n

\* the runtime's listing, by creation (ID) ascending or descending
RECURSIVE Listing(_, _)
Listing(S, order) ==
    IF S = {} THEN <<>>
    ELSE LET pick == IF order = "asc" THEN MinOf(IDs(S)) ELSE MaxOf(IDs(S))
             c == CHOOSE x \in S : x.ID = pick
         IN <<c>> \o Listing(S \ {c}, order)

Orders == {"asc", "desc"}

(***************************************************************************)
(* Pure functions of convergence.go.                                       *)
(***************************************************************************)
\* the config hash collaborator: an opaque string derived from the config
ServiceHash(service) == service.Hash

\* lines 206-213: the scale computed from deploy.replicas and scale
computedScale(config) ==
    LET s0 == 1
        s1 == IF config.Replicas # NoReplicas
              THEN CHOOSE n \in config.Replicas : TRUE ELSE s0
    IN IF config.Scale # 0 THEN config.Scale ELSE s1

getScaleIgnoringName(config) == [scale |-> computedScale(config), err |-> FALSE]

getScale(config) ==
    LET scale == computedScale(config)
    IN IF scale > 1 /\ config.ContainerName # ""
       THEN [scale |-> -1, err |-> TRUE]
       ELSE [scale |-> scale, err |-> FALSE]

RECURSIVE maxNumber(_, _)
maxNumber(containers, max) ==
    IF containers = <<>> THEN max
    ELSE LET n == Head(containers).Number
         IN maxNumber(Tail(containers), IF n > max THEN n ELSE max)

nextContainerNumberByCount(containers) == Len(containers) + 1

nextContainerNumber(containers) == maxNumber(containers, 0) + 1

(***************************************************************************)
(* Tasks of an errgroup.                                                   *)
(***************************************************************************)
Task(kind, pc, c, name, number) ==
    [kind |-> kind, pc |-> pc, c |-> c, name |-> name, number |-> number,
     newID |-> 0, err |-> FALSE]

Finished(t) == t.pc = "done"

(***************************************************************************)
(* ensureScale and ensureService: everything up to eg.Wait() runs without  *)
(* a runtime call, so it is computed here and applied in one step.         *)
(***************************************************************************)
ensureScale(service) ==
    LET observedState == cState
        actual == filter(filter(observedState, LAMBDA c : isService(service.Name, c)),
                         isNotOneOff)
        sc == getScale(service)
        scale == sc.scale
        next == nextContainerNumber(actual)
        missing == scale - Len(actual)
        creates ==
            IF Len(actual) < scale
            THEN [i \in 1..missing |->
                    Task("create", "create", NoContainer,
                         getContainerName(service, next + (i - 1)), next + (i - 1))]
            ELSE <<>>
        removes ==
            IF Len(actual) > scale
            THEN [i \in 1..(Len(actual) - scale) |->
                    Task("remove", "stop", actual[scale + i], NoName, 0)]
            ELSE <<>>
    IN IF sc.err
       THEN [err |-> TRUE, eg |-> <<>>, actual |-> <<>>, observed |-> actual]
       ELSE [err |-> FALSE, eg |-> creates \o removes,
             actual |-> IF Len(actual) > scale THEN SubSeq(actual, 1, scale) ELSE actual,
             observed |-> actual]

mustRecreateIgnoringFlag(service, policy, c) ==
    c.Hash # ServiceHash(service) \/ policy = RecreateForce

\* line 111-112: the container is handed to recreateContainer
mustRecreate(service, policy, c) ==
    LET expected == ServiceHash(service)
        diverged == c.Hash # expected
    IN diverged \/ policy = RecreateForce
         \/ service.Extensions[extLifecycle] = forceRecreate

\* line 120-131: the switch on container.State of a container that is kept
keptEvent(c) ==
    IF c.State = ContainerRunning THEN {<<getContainerProgressName(c), "Running">>}
    ELSE IF c.State = ContainerExited THEN {<<getContainerProgressName(c), "Created">>}
    ELSE {}

keptNeedsStart(c) ==
    c.State \notin {ContainerRunning, ContainerCreated, ContainerRestarting,
                    ContainerExited}

RECURSIVE decide(_, _, _)
decide(service, policy, actual) ==
    IF actual = <<>> THEN [eg |-> <<>>, events |-> {}]
    ELSE LET c == Head(actual)
             rest == decide(service, policy, Tail(actual))
         IN IF mustRecreate(service, policy, c)
            THEN [eg |-> <<Task("recreate", "stop", c, NoName, 0)>> \o rest.eg,
                  events |-> rest.events]
            ELSE IF keptNeedsStart(c)
            THEN [eg |-> <<Task("start", "start", c, NoName, 0)>> \o rest.eg,
                  events |-> rest.events]
            ELSE [eg |-> rest.eg, events |-> keptEvent(c) \cup rest.events]

\* ret: "err" (ensureScale failed), "nil" (returned nil without waiting),
\* "wait" (blocked in eg.Wait())
ensureService(service, policy) ==
    LET sc == ensureScale(service)
        d == decide(service, policy, sc.actual)
    IN IF sc.err
       THEN [ret |-> "err", eg |-> <<>>, events |-> {}, sc |-> sc]
       ELSE IF policy = RecreateNever
       THEN [ret |-> "nil", eg |-> sc.eg, events |-> {}, sc |-> sc]
       ELSE [ret |-> "wait", eg |-> sc.eg \o d.eg, events |-> d.events, sc |-> sc]

(***************************************************************************)
(* The runtime (container-runtime client collaborator).                    *)
(***************************************************************************)
InRuntime(id) == \E r \in rt : r.ID = id
NameTaken(name) == \E r \in rt : r.Name = name

SetTask(s, i, t) == eg' = [eg EXCEPT ![s][i] = t]
FailButGoOn(t) ==
    IF t.kind = "recreate" /\ t.pc = "create"
    THEN [t EXCEPT !.pc = "remove"]
    ELSE [t EXCEPT !.pc = "done", !.err = TRUE]

\* the goroutine returns the error of the call it just made
Fail(t) == [t EXCEPT !.pc = "done", !.err = TRUE]
\* a runtime call: op on container id, issued by a task of service svc for the
\* snapshot container of (0 for a scale-up task, which has none)
Call(op, svc, id, of) == [op |-> op, svc |-> svc, id |-> id, of |-> of]
Log(op, svc, id, of) == apiLog' = apiLog \cup {Call(op, svc, id, of)}

setDependentLifecycleNoop(p, service, strategy) == p

\* setDependentLifecycle(project, service, strategy)
setDependentLifecycle(p, service, strategy) ==
    [n \in DOMAIN p |->
        IF service \in p[n].DependsOn
        THEN [p[n] EXCEPT !.Extensions = [k \in {extLifecycle} |-> strategy]]
        ELSE p[n]]

(***************************************************************************)
(* Steps of the goroutines of a service's errgroup.                        *)
(***************************************************************************)
\* ContainerStop: first call of a scale-down task (line 80) and of
\* recreateContainer (line 238)
ContainerStop(s, i) ==
    /\ i \in DOMAIN eg[s]
    /\ eg[s][i].pc = "stop"
    /\ \E ok \in BOOLEAN :
        /\ LET t == eg[s][i]
               success == ok /\ InRuntime(t.c.ID)
           IN /\ Log("stop", s, t.c.ID, t.c.ID)
              /\ rt' = IF success
                       THEN {IF r.ID = t.c.ID THEN [r EXCEPT !.State = ContainerExited]
                             ELSE r : r \in rt}
                       ELSE rt
              /\ SetTask(s, i, IF ~success THEN Fail(t)
                               ELSE IF t.kind = "remove" THEN [t EXCEPT !.pc = "remove"]
                               ELSE [t EXCEPT !.pc = "rename"])
              /\ events' = IF t.kind = "recreate"
                           THEN events \cup {<<getContainerProgressName(t.c), "Recreate">>}
                           ELSE events
    /\ UNCHANGED <<project, nextID, cState, recreate, status, calls, conv, pass, fresh,
                   repeat, prevOk, assigned, opts, wait, wd>>

\* lines 242-257: the name and number the replacement is created with
replacementRenumbered(c) ==
    [name |-> getCanonicalContainerName(c), number |-> c.Number + 1]

replacement(c) == [name |-> getCanonicalContainerName(c), number |-> c.Number]

\* ContainerRename to the temporary name (lines 242-251)
ContainerRename(s, i) ==
    /\ i \in DOMAIN eg[s]
    /\ eg[s][i].pc = "rename"
    /\ \E ok \in BOOLEAN :
        /\ LET t == eg[s][i]
               name == getCanonicalContainerName(t.c)
               tmp == tmpName(t.c, name)
               success == ok /\ InRuntime(t.c.ID) /\ ~NameTaken(tmp)
           IN /\ Log("rename", s, t.c.ID, t.c.ID)
              /\ rt' = IF success
                       THEN {IF r.ID = t.c.ID THEN [r EXCEPT !.Name = tmp] ELSE r : r \in rt}
                       ELSE rt
              /\ SetTask(s, i, IF ~success THEN Fail(t)
                               ELSE [t EXCEPT !.pc = "create",
                                              !.name = replacement(t.c).name,
                                              !.number = replacement(t.c).number])
    /\ UNCHANGED <<project, nextID, cState, recreate, status, calls, conv, events, pass,
                   fresh, repeat, prevOk, assigned, opts, wait, wd>>

\* ContainerCreate of createMobyContainer (line 314), for a scale-up task and
\* for the replacement of recreateContainer
ContainerCreate(s, i) ==
    /\ i \in DOMAIN eg[s]
    /\ eg[s][i].pc = "create"
    /\ \E ok \in BOOLEAN :
        /\ LET t == eg[s][i]
               success == ok /\ ~NameTaken(t.name)
               created == [ID |-> nextID, Service |-> s, Number |-> t.number,
                           Name |-> t.name, Hash |-> ServiceHash(project[s]),
                           State |-> ContainerCreated, OneOff |-> FALSE,
                           Health |-> "", ExitCode |-> 0]
           IN /\ Log("create", s, 0, t.c.ID)
              /\ rt' = IF success THEN rt \cup {created} ELSE rt
              /\ nextID' = IF success THEN nextID + 1 ELSE nextID
              /\ assigned' = IF success
                             THEN [assigned EXCEPT ![s] = @ \cup {t.number}]
                             ELSE assigned
              /\ SetTask(s, i, IF ~success THEN Fail(t)
                               ELSE [t EXCEPT !.pc = "inspect", !.newID = nextID])
              /\ events' = IF t.kind = "create"
                           THEN events \cup {<<<<"Container", t.name>>, "Creating">>}
                           ELSE events
    /\ UNCHANGED <<project, cState, recreate, status, calls, conv, pass, fresh, repeat,
                   prevOk, opts, wait, wd>>

\* ContainerInspect and cState.Add (lines 318-330)
ContainerInspect(s, i) ==
    /\ i \in DOMAIN eg[s]
    /\ eg[s][i].pc = "inspect"
    /\ \E ok \in BOOLEAN :
        /\ LET t == eg[s][i]
               success == ok /\ InRuntime(t.newID)
               inspected == CHOOSE r \in rt : r.ID = t.newID
               createdContainer == [inspected EXCEPT !.State = ""]
           IN /\ Log("inspect", s, t.newID, t.c.ID)
              /\ cState' = IF success THEN Append(cState, createdContainer) ELSE cState
              /\ SetTask(s, i, IF ~success THEN Fail(t) ELSE [t EXCEPT !.pc = "connect"])
    /\ UNCHANGED <<project, rt, nextID, recreate, status, calls, conv, events, pass,
                   fresh, repeat, prevOk, assigned, opts, wait, wd>>

\* getLinks and the network loop of createMobyContainer (lines 331-359)
NetworkConnect(s, i) ==
    /\ i \in DOMAIN eg[s]
    /\ eg[s][i].pc = "connect"
    /\ \E ok \in BOOLEAN :
        /\ LET t == eg[s][i]
               success == ok /\ InRuntime(t.newID)
           IN /\ Log("connect", s, t.newID, t.c.ID)
              /\ SetTask(s, i, IF ~success THEN Fail(t)
                               ELSE IF t.kind = "create" THEN [t EXCEPT !.pc = "done"]
                               ELSE [t EXCEPT !.pc = "remove"])
              /\ events' = IF success /\ t.kind = "create"
                           THEN events \cup {<<<<"Container", t.name>>, "Created">>}
                           ELSE events
    /\ UNCHANGED <<project, rt, nextID, cState, recreate, status, calls, conv, pass,
                   fresh, repeat, prevOk, assigned, opts, wait, wd>>

\* ContainerRemove: last call of a scale-down task (line 84); in
\* recreateContainer (lines 261-267) followed by the event and the cascade
ContainerRemove(s, i) ==
    /\ i \in DOMAIN eg[s]
    /\ eg[s][i].pc = "remove"
    /\ \E ok \in BOOLEAN :
        /\ LET t == eg[s][i]
               success == ok /\ InRuntime(t.c.ID)
               cascade == success /\ t.kind = "recreate"
           IN /\ Log("remove", s, t.c.ID, t.c.ID)
              /\ rt' = IF success THEN {r \in rt : r.ID # t.c.ID} ELSE rt
              /\ SetTask(s, i, IF ~success THEN Fail(t) ELSE [t EXCEPT !.pc = "done"])
              /\ events' = IF cascade
                           THEN events \cup {<<getContainerProgressName(t.c), "Recreated">>}
                           ELSE events
              /\ project' = IF cascade
                            THEN setDependentLifecycle(project, s, forceRecreate)
                            ELSE project
    /\ UNCHANGED <<nextID, cState, recreate, status, calls, conv, pass, fresh, repeat,
                   prevOk, assigned, opts, wait, wd>>

\* startContainer (lines 283-292)
ContainerStart(s, i) ==
    /\ i \in DOMAIN eg[s]
    /\ eg[s][i].pc = "start"
    /\ \E ok \in BOOLEAN :
        /\ LET t == eg[s][i]
               success == ok /\ InRuntime(t.c.ID)
           IN /\ Log("start", s, t.c.ID, t.c.ID)
              /\ rt' = IF success
                       THEN {IF r.ID = t.c.ID THEN [r EXCEPT !.State = ContainerRunning]
                             ELSE r : r \in rt}
                       ELSE rt
              /\ SetTask(s, i, IF ~success THEN Fail(t) ELSE [t EXCEPT !.pc = "done"])
              /\ events' = events \cup {<<getContainerProgressName(t.c), "Restart">>}
                              \cup (IF success
                                    THEN {<<getContainerProgressName(t.c), "Restarted">>}
                                    ELSE {})
    /\ UNCHANGED <<project, nextID, cState, recreate, status, calls, conv, pass, fresh,
                   repeat, prevOk, assigned, opts, wait, wd>>

(***************************************************************************)
(* Accesses to the memory the goroutines share. A goroutine accesses it    *)
(* right after the runtime call it is suspended in returns; no lock, no    *)
(* channel and no Wait orders the goroutines of a group, or of two running *)
(* callbacks, between these calls.                                         *)
(***************************************************************************)
\* the services whose Extensions entry setDependentLifecycle(project, s, _)
\* writes (lines 272-279)
flagWrites(p, s) == {n \in DOMAIN p : s \in p[n].DependsOn}

\* task i of s is suspended in the ContainerRemove of recreateContainer
\* (line 261); setDependentLifecycle (line 266) follows its return
AboutToSetLifecycle(s, i) ==
    /\ i \in DOMAIN eg[s]
    /\ eg[s][i].kind = "recreate"
    /\ eg[s][i].pc = "remove"

\* task i of s is suspended in the ContainerInspect of createMobyContainer
\* (line 318); cState.Add (line 330) follows its return
AboutToAdd(s, i) ==
    /\ i \in DOMAIN eg[s]
    /\ eg[s][i].pc = "inspect"

(***************************************************************************)
(* The dependency graph executor (InDependencyOrder) running ensureService *)
(* as the per-service callback.                                            *)
(***************************************************************************)
\* a callback may begin: every dependency's callback has returned nil, and
\* no callback has failed (a failure cancels the pending invocations)
CanInvoke(s) ==
    /\ status[s] = "pending"
    /\ \A d \in project[s].DependsOn : status[d] = "done"
    /\ \A n \in Services : status[n] # "failed"

AllFinished(s) == \A i \in DOMAIN eg[s] : Finished(eg[s][i])
AnyFailed(s) == \E i \in DOMAIN eg[s] : eg[s][i].err

OperationFinished ==
    /\ \A s \in Services : status[s] # "running"
    /\ \/ \E s \in Services : status[s] = "failed"
       \/ \A s \in Services : status[s] = "done"

NoConv ==
    [ran |-> FALSE, ret |-> "", policy |-> "", flag |-> "", expected |-> "",
     observed |-> <<>>, retained |-> <<>>, ever |-> {}]

\* the executor invokes the callback of s: ensureService up to its return
\* or its eg.Wait()
EnsureService(s) ==
    /\ CanInvoke(s)
    /\ LET r == ensureService(project[s], recreate)
       IN /\ eg' = [eg EXCEPT ![s] = r.eg]
          /\ events' = events \cup r.events
          /\ status' = [status EXCEPT ![s] =
                            CASE r.ret = "err" -> "failed"
                              [] r.ret = "nil" -> "done"
                              [] OTHER -> "running"]
          /\ conv' = [conv EXCEPT ![s] =
                        [ran |-> TRUE, ret |-> r.ret, policy |-> recreate,
                         flag |-> project[s].Extensions[extLifecycle],
                         expected |-> ServiceHash(project[s]),
                         observed |-> r.sc.observed, retained |-> r.sc.actual,
                         ever |-> assigned[s]]]
    /\ calls' = [calls EXCEPT ![s] = @ + 1]
    /\ UNCHANGED <<project, rt, nextID, cState, recreate, apiLog, pass, fresh,
                   repeat, prevOk, assigned, opts, wait, wd>>

egWaitNoBlock(s) == TRUE

\* eg.Wait() blocks until every goroutine of the group has returned
egWait(s) == AllFinished(s)

\* eg.Wait() of ensureService (line 133) and of restartService (line 521)
\* returns; the result is the first error, if any
WaitReturns(s) ==
    /\ status[s] = "running"
    /\ egWait(s)
    /\ status' = [status EXCEPT ![s] = IF AnyFailed(s) THEN "failed" ELSE "done"]
    /\ UNCHANGED <<project, rt, nextID, cState, recreate, calls, eg, conv, apiLog,
                   events, pass, fresh, repeat, prevOk, assigned, opts, wait, wd>>

(***************************************************************************)
(* A further convergence operation on the same project: either a new       *)
(* operation, whose context carries a snapshot listed from the runtime, or *)
(* a further call on the context of the finished one.                      *)
(***************************************************************************)
Policies == {RecreateNever, RecreateDiverged, RecreateForce}

PrevOk(s) ==
    /\ conv[s].ran
    /\ conv[s].ret # "err"
    /\ AllFinished(s)
    /\ ~AnyFailed(s)
    /\ \A i \in DOMAIN eg[s] : eg[s][i].kind \in {"create", "remove"}

BeginPass(s, sc, fr, order) ==
    /\ pass < MaxPasses
    /\ OperationFinished
    /\ \A n \in Services : AllFinished(n)
    /\ pass' = pass + 1
    /\ fresh' = fr
    /\ repeat' = (sc = project[s].Scale)
    /\ prevOk' = [n \in Services |-> PrevOk(n)]
    /\ project' = [n \in Services |->
                     [project[n] EXCEPT
                        !.Scale = IF n = s THEN sc ELSE @,
                        !.Extensions = IF fr THEN [k \in {extLifecycle} |-> ""] ELSE @]]
    /\ cState' = IF fr THEN Listing(rt, order) ELSE cState
    /\ status' = [n \in Services |-> "pending"]
    /\ calls' = [n \in Services |-> 0]
    /\ eg' = [n \in Services |-> <<>>]
    /\ conv' = [n \in Services |-> NoConv]
    /\ apiLog' = {}
    /\ events' = {}
    /\ UNCHANGED <<rt, nextID, recreate, assigned, opts, wait, wd>>

(***************************************************************************)
(* Initial states: a project of service A and service B, which depends on  *)
(* A, and the containers earlier operations left in the runtime.           *)
(***************************************************************************)
Config(name, deps, scale, replicas, cname) ==
    [Name |-> name, DependsOn |-> deps, Scale |-> scale, Replicas |-> replicas,
     ContainerName |-> cname, Hash |-> "h2",
     Extensions |-> [k \in {extLifecycle} |-> ""],
     Condition |-> [d \in deps |-> ServiceConditionStarted]]

Ctr(id, svc, num, hash, state) ==
    [ID |-> id, Service |-> svc, Number |-> num,
     Name |-> [fixed |-> "", svc |-> svc, num |-> num, tmp |-> 0],
     Hash |-> hash, State |-> state, OneOff |-> FALSE, Health |-> "", ExitCode |-> 0]

RuntimesA ==
    {{}}
      \cup {{Ctr(1, "A", 1, h, st)} :
              h \in {"h1", "h2"}, st \in {ContainerRunning, ContainerPaused}}
      \cup {{Ctr(1, "A", 1, h, ContainerRunning),
             Ctr(2, "A", 2, "h2", ContainerRunning)} : h \in {"h1", "h2"}}

RuntimesB == {{Ctr(3, "B", 1, "h2", ContainerRunning)}}

ConfigsA ==
    {Config("A", {}, sc, rep, cn) :
       sc \in 0..MaxScale, rep \in {NoReplicas, {0}, {MaxScale}}, cn \in {"", "web"}}

InitWith(projects, runtimes) ==
    /\ project \in projects
    /\ rt \in runtimes
    /\ nextID = 4
    /\ \E order \in Orders : cState = Listing(rt, order)
    /\ recreate \in Policies
    /\ status = [n \in Services |-> "pending"]
    /\ calls = [n \in Services |-> 0]
    /\ eg = [n \in Services |-> <<>>]
    /\ conv = [n \in Services |-> NoConv]
    /\ apiLog = {}
    /\ events = {}
    /\ pass = 1
    /\ fresh = TRUE
    /\ repeat = FALSE
    /\ prevOk = [n \in Services |-> FALSE]
    /\ assigned = [n \in Services |-> {c.Number : c \in {r \in rt : r.Service = n}}]
    /\ opts = {}
    /\ wait = <<>>
    /\ wd = ""

Init ==
    InitWith({[n \in {"A", "B"} |->
                 IF n = "A" THEN a ELSE Config("B", {"A"}, 0, NoReplicas, "")] :
                a \in ConfigsA},
             {a \cup b : a \in RuntimesA, b \in RuntimesB})

Next ==
    \/ \E s \in Services : EnsureService(s)
    \/ \E s \in Services : WaitReturns(s)
    \/ \E s \in Services, i \in 1..(2 * (MaxScale + 1)) : ContainerStop(s, i)
    \/ \E s \in Services, i \in 1..(2 * (MaxScale + 1)) : ContainerRename(s, i)
    \/ \E s \in Services, i \in 1..(2 * (MaxScale + 1)) : ContainerCreate(s, i)
    \/ \E s \in Services, i \in 1..(2 * (MaxScale + 1)) : ContainerInspect(s, i)
    \/ \E s \in Services, i \in 1..(2 * (MaxScale + 1)) : NetworkConnect(s, i)
    \/ \E s \in Services, i \in 1..(2 * (MaxScale + 1)) : ContainerRemove(s, i)
    \/ \E s \in Services, i \in 1..(2 * (MaxScale + 1)) : ContainerStart(s, i)

\* one convergence operation over the project of A and B
Spec == Init /\ [][Next]_vars

\* successive scale reconciliations (ensureService under policy never is
\* ensureScale alone) of a project of the single service A
InitPasses ==
    /\ InitWith({[n \in {"A"} |-> Config("A", {}, sc, NoReplicas, "")] : sc \in 0..MaxScale},
                RuntimesA)
    /\ recreate = RecreateNever

NextPasses ==
    \/ \E s \in Services : EnsureService(s)
    \/ \E s \in Services, i \in 1..(2 * (MaxScale + 1)) : ContainerStop(s, i)
    \/ \E s \in Services, i \in 1..(2 * (MaxScale + 1)) : ContainerCreate(s, i)
    \/ \E s \in Services, i \in 1..(2 * (MaxScale + 1)) : ContainerInspect(s, i)
    \/ \E s \in Services, i \in 1..(2 * (MaxScale + 1)) : NetworkConnect(s, i)
    \/ \E s \in Services, i \in 1..(2 * (MaxScale + 1)) : ContainerRemove(s, i)
    \/ \E s \in Services, sc \in 0..MaxScale, fr \in BOOLEAN, order \in Orders :
          BeginPass(s, sc, fr, order)

SpecPasses == InitPasses /\ [][NextPasses]_vars

(***************************************************************************)
(* Restart (restart.go): restartService as the callback of the executor.   *)
(***************************************************************************)
\* lines 41-43: no service named means every service of the project
restartTargets == IF opts = {} THEN Services ELSE opts

\* the executor invokes the callback of s (restart.go lines 45-50), which
\* runs restartService up to its eg.Wait() when s is a target
RestartService(s) ==
    /\ CanInvoke(s)
    /\ calls' = [calls EXCEPT ![s] = @ + 1]
    /\ IF s \in restartTargets
       THEN LET containers == filter(cState, LAMBDA c : isService(s, c))
            IN /\ eg' = [eg EXCEPT ![s] =
                           [i \in DOMAIN containers |->
                              Task("restart", "restart", containers[i], NoName, 0)]]
               /\ status' = [status EXCEPT ![s] = "running"]
       ELSE /\ status' = [status EXCEPT ![s] = "done"]
            /\ eg' = eg
    /\ UNCHANGED <<project, rt, nextID, cState, recreate, conv, apiLog, events, pass,
                   fresh, repeat, prevOk, assigned, opts, wait, wd>>

\* one goroutine of restartService (lines 511-519); the group's context is
\* cancelled by the first goroutine that failed, and a call on a cancelled
\* context fails
ContainerRestart(s, i) ==
    /\ i \in DOMAIN eg[s]
    /\ eg[s][i].pc = "restart"
    /\ \E ok \in BOOLEAN :
        LET t == eg[s][i]
            success == ok /\ InRuntime(t.c.ID) /\ ~AnyFailed(s)
        IN /\ Log("restart", s, t.c.ID, t.c.ID)
           /\ rt' = IF success
                    THEN {IF r.ID = t.c.ID THEN [r EXCEPT !.State = ContainerRunning]
                          ELSE r : r \in rt}
                    ELSE rt
           /\ SetTask(s, i, IF ~success THEN Fail(t) ELSE [t EXCEPT !.pc = "done"])
           /\ events' = events \cup {<<getContainerProgressName(t.c), "Restarting">>}
                           \cup (IF success
                                 THEN {<<getContainerProgressName(t.c), "Started">>}
                                 ELSE {})
    /\ UNCHANGED <<project, nextID, cState, recreate, status, calls, conv, pass, fresh,
                   repeat, prevOk, assigned, opts, wait, wd>>

\* the projects of three services with an acyclic depends_on graph
Names3 == {"A", "B", "C"}

IsAcyclic(g) ==
    \E ord \in [DOMAIN g -> 1..Cardinality(DOMAIN g)] :
        \A s \in DOMAIN g : \A d \in g[s] : ord[d] < ord[s]

AcyclicProjects ==
    {[n \in Names3 |-> Config(n, g[n], 0, NoReplicas, "")] :
        g \in {h \in [Names3 -> SUBSET Names3] : IsAcyclic(h)}}

RuntimeRestart ==
    {Ctr(1, "A", 1, "h2", ContainerRunning), Ctr(2, "A", 2, "h2", ContainerExited),
     Ctr(3, "B", 1, "h2", ContainerRunning), Ctr(4, "C", 1, "h2", ContainerRunning)}

\* a one-off container of service svc (compose run), in the project's snapshot
\* like every container of the project
OneOffContainer(id, svc) ==
    [Ctr(id, svc, 1, "h2", ContainerRunning) EXCEPT
        !.OneOff = TRUE,
        !.Name = [fixed |-> "run", svc |-> svc, num |-> id, tmp |-> 0]]

RuntimesRestart ==
    {RuntimeRestart, RuntimeRestart \cup {OneOffContainer(5, "B")}}

InitRestart ==
    /\ project \in AcyclicProjects
    /\ rt \in RuntimesRestart
    /\ nextID = 6
    /\ \E order \in Orders : cState = Listing(rt, order)
    /\ recreate = RecreateNever
    /\ status = [n \in Services |-> "pending"]
    /\ calls = [n \in Services |-> 0]
    /\ eg = [n \in Services |-> <<>>]
    /\ conv = [n \in Services |-> NoConv]
    /\ apiLog = {}
    /\ events = {}
    /\ pass = 1
    /\ fresh = TRUE
    /\ repeat = FALSE
    /\ prevOk = [n \in Services |-> FALSE]
    /\ assigned = [n \in Services |-> {}]
    /\ opts \in SUBSET Names3
    /\ wait = <<>>
    /\ wd = ""

NextRestart ==
    \/ \E s \in Services : RestartService(s)
    \/ \E s \in Services, i \in 1..(MaxScale + 1) : ContainerRestart(s, i)
    \/ \E s \in Services : WaitReturns(s)

SpecRestart == InitRestart /\ [][NextRestart]_vars

(***************************************************************************)
(* waitDependencies: one polling goroutine per dependency of a service.    *)
(***************************************************************************)
\* getContainers(ctx, project, oneOffExclude, stopped, service): the
\* runtime's listing of the service's containers that are not one-off;
\* exited and created containers are listed only when stopped is true
getContainers(service, stopped, order) ==
    Listing({r \in rt : /\ r.Service = service
                        /\ ~r.OneOff
                        /\ stopped \/ r.State \notin {ContainerExited, ContainerCreated}},
            order)

NoError == [kind |-> "", dep |-> "", code |-> 0]
ApiError == [kind |-> "api", dep |-> "", code |-> 0]

\* the loop of isServiceHealthy (lines 432-444) from container i on;
\* failAt is the index of the container whose ContainerInspect fails
RECURSIVE healthyFrom(_, _, _, _)
healthyFrom(service, containers, i, failAt) ==
    IF i > Len(containers) THEN [healthy |-> TRUE, err |-> NoError]
    ELSE IF i = failAt THEN [healthy |-> FALSE, err |-> ApiError]
    ELSE IF containers[i].Health = ""
    THEN [healthy |-> FALSE,
          err |-> [kind |-> "no healthcheck configured", dep |-> service, code |-> 0]]
    ELSE IF containers[i].Health # Healthy THEN [healthy |-> FALSE, err |-> NoError]
    ELSE healthyFrom(service, containers, i + 1, failAt)

\* failAt = -1: getContainers fails
isServiceHealthy(service, containers, failAt) ==
    IF failAt = -1 THEN [healthy |-> FALSE, err |-> ApiError]
    ELSE IF Len(containers) = 0 THEN [healthy |-> FALSE, err |-> NoError]
    ELSE healthyFrom(service, containers, 1, failAt)

\* the loop of isServiceCompleted (lines 452-461)
RECURSIVE completedFrom(_, _, _)
completedFrom(containers, i, failAt) ==
    IF i > Len(containers) THEN [exited |-> FALSE, code |-> 0, err |-> NoError]
    ELSE IF i = failAt THEN [exited |-> FALSE, code |-> 0, err |-> ApiError]
    ELSE IF containers[i].State = ContainerExited
    THEN [exited |-> TRUE, code |-> containers[i].ExitCode, err |-> NoError]
    ELSE completedFrom(containers, i + 1, failAt)

\* reports the first container, whatever its state
isServiceCompletedAnyState(containers, failAt) ==
    IF failAt # 0 \/ Len(containers) = 0
    THEN [exited |-> FALSE, code |-> 0, err |-> IF failAt # 0 THEN ApiError ELSE NoError]
    ELSE [exited |-> TRUE, code |-> containers[1].ExitCode, err |-> NoError]

isServiceCompleted(containers, failAt) ==
    IF failAt = -1 THEN [exited |-> FALSE, code |-> 0, err |-> ApiError]
    ELSE completedFrom(containers, 1, failAt)

\* one iteration of the loop of a goroutine of waitDependencies (lines
\* 155-184): "" when it goes on polling, else "nil" or "err"
tick(dep, condition, order, failAt) ==
    IF condition = ServiceConditionHealthy
    THEN LET r == isServiceHealthy(dep, getContainers(dep, FALSE, order), failAt)
         IN IF r.err # NoError THEN [result |-> "err", err |-> r.err]
            ELSE IF r.healthy THEN [result |-> "nil", err |-> NoError]
            ELSE [result |-> "", err |-> NoError]
    ELSE IF condition = ServiceConditionCompletedSuccessfully
    THEN LET r == isServiceCompleted(getContainers(dep, TRUE, order), failAt)
         IN IF r.err # NoError THEN [result |-> "err", err |-> r.err]
            ELSE IF r.exited
            THEN IF r.code # 0
                 THEN [result |-> "err",
                       err |-> [kind |-> "didn't completed successfully",
                                dep |-> dep, code |-> r.code]]
                 ELSE [result |-> "nil", err |-> NoError]
            ELSE [result |-> "", err |-> NoError]
    ELSE [result |-> "nil", err |-> NoError]

NoWait == [pc |-> "polling", result |-> "", err |-> NoError, polled |-> FALSE,
           listedNoHealthcheck |-> FALSE]

\* the goroutine waiting for dep on behalf of s runs one tick
Poll(s, dep) ==
    /\ dep \in DOMAIN wait
    /\ dep \in project[s].DependsOn
    /\ wait[dep].pc = "polling"
    /\ \E order \in Orders, failAt \in -1..MaxScale :
        LET r == tick(dep, project[s].Condition[dep], order, failAt)
        IN wait' = [wait EXCEPT ![dep] =
                      [pc |-> IF r.result = "" THEN "polling" ELSE "done",
                       result |-> r.result,
                       err |-> r.err,
                       polled |-> TRUE,
                       listedNoHealthcheck |->
                           \E c \in Range(getContainers(dep, FALSE, order)) :
                               c.Health = ""]]
    /\ UNCHANGED <<project, rt, nextID, cState, recreate, status, calls, eg, conv,
                   apiLog, events, pass, fresh, repeat, prevOk, assigned, opts, wd>>

\* eg.Wait() of waitDependencies (line 187): every goroutine has returned
WaitDependenciesReturns ==
    /\ wd = ""
    /\ \A dep \in DOMAIN wait : wait[dep].pc = "done"
    /\ wd' = IF \E dep \in DOMAIN wait : wait[dep].result = "err" THEN "err" ELSE "nil"
    /\ UNCHANGED <<project, rt, nextID, cState, recreate, status, calls, eg, conv,
                   apiLog, events, pass, fresh, repeat, prevOk, assigned, opts, wait>>

\* the containers of the dependencies run on their own: a healthcheck
\* changes its verdict, a container exits
HealthChanges(id) ==
    /\ \E r \in rt : /\ r.ID = id
                     /\ r.Health # ""
                     /\ r.State = ContainerRunning
                     /\ rt' = (rt \ {r}) \cup
                                {[r EXCEPT !.Health = IF @ = Healthy THEN Unhealthy
                                                      ELSE Healthy]}
    /\ UNCHANGED <<project, nextID, cState, recreate, status, calls, eg, conv, apiLog,
                   events, pass, fresh, repeat, prevOk, assigned, opts, wait, wd>>

ContainerExits(id, code) ==
    /\ \E r \in rt : /\ r.ID = id
                     /\ r.State = ContainerRunning
                     /\ rt' = (rt \ {r}) \cup
                                {[r EXCEPT !.State = ContainerExited, !.ExitCode = code]}
    /\ UNCHANGED <<project, nextID, cState, recreate, status, calls, eg, conv, apiLog,
                   events, pass, fresh, repeat, prevOk, assigned, opts, wait, wd>>

\* service C waits for A and for B
ConditionsOfA == {ServiceConditionHealthy, ServiceConditionCompletedSuccessfully,
                  "service_unknown"}
ConditionsOfB == {ServiceConditionHealthy, ServiceConditionStarted}

WaitProjects ==
    {[n \in Names3 |->
        IF n = "C"
        THEN [Config("C", {"A", "B"}, 0, NoReplicas, "") EXCEPT
                 !.Condition = [d \in {"A", "B"} |-> IF d = "A" THEN ca ELSE cb]]
        ELSE Config(n, {}, 0, NoReplicas, "")] :
       ca \in ConditionsOfA, cb \in ConditionsOfB}

WaitRuntimes ==
    {{[Ctr(1, "A", 1, "h2", ContainerRunning) EXCEPT !.Health = h1],
      [Ctr(2, "A", 2, "h2", ContainerRunning) EXCEPT !.Health = h2, !.OneOff = o],
      [Ctr(3, "B", 1, "h2", ContainerRunning) EXCEPT !.Health = Unhealthy]} :
       h1 \in {"", Unhealthy}, h2 \in {"", Healthy}, o \in BOOLEAN}

InitWait ==
    /\ project \in WaitProjects
    /\ rt \in WaitRuntimes
    /\ nextID = 4
    /\ cState = Listing(rt, "asc")
    /\ recreate = RecreateNever
    /\ status = [n \in Services |-> "pending"]
    /\ calls = [n \in Services |-> 0]
    /\ eg = [n \in Services |-> <<>>]
    /\ conv = [n \in Services |-> NoConv]
    /\ apiLog = {}
    /\ events = {}
    /\ pass = 1
    /\ fresh = TRUE
    /\ repeat = FALSE
    /\ prevOk = [n \in Services |-> FALSE]
    /\ assigned = [n \in Services |-> {}]
    /\ opts = {}
    /\ wait = [d \in project["C"].DependsOn |-> NoWait]
    /\ wd = ""

NextWait ==
    \/ \E s \in Services, dep \in Services : Poll(s, dep)
    \/ WaitDependenciesReturns
    \/ \E id \in 1..3 : HealthChanges(id)
    \/ \E id \in 1..3, code \in {0, 1} : ContainerExits(id, code)

SpecWait == InitWait /\ [][NextWait]_vars

\* a tick of the goroutine polling dep whose runtime calls are all answered
PollAnswered(s, dep) == Poll(s, dep) /\ wait'[dep].err # ApiError

\* the ticker of every goroutine keeps firing (line 156) and eg.Wait()
\* returns once every goroutine has returned (line 187); the containers of
\* the dependencies owe nothing
FairWait ==
    /\ \A dep \in {"A", "B"} : WF_vars(PollAnswered("C", dep))
    /\ WF_vars(WaitDependenciesReturns)

SpecWaitFair == InitWait /\ [][NextWait]_vars /\ FairWait

(***************************************************************************)
(* startService: waitDependencies, then the listing of the service's       *)
(* containers and one starting goroutine per container that is not running.*)
(***************************************************************************)
\* lines 465-468: waitDependencies returned an error
StartServiceFails(s) ==
    /\ status[s] = "pending"
    /\ DOMAIN wait = project[s].DependsOn
    /\ wd = "err"
    /\ status' = [status EXCEPT ![s] = "failed"]
    /\ UNCHANGED <<project, rt, nextID, cState, recreate, calls, eg, conv, apiLog,
                   events, pass, fresh, repeat, prevOk, assigned, opts, wait, wd>>

startTargetsAll(containers) == containers

\* lines 483-487: the listed containers a goroutine is spawned for
startTargets(containers) ==
    filter(containers, LAMBDA c : c.State # ContainerRunning)

\* lines 469-497: ContainerList with the project, service and one-off
\* filters, All: true, and the spawning of the goroutines
StartServiceList(s) ==
    /\ status[s] = "pending"
    /\ DOMAIN wait = project[s].DependsOn
    /\ wd = "nil"
    /\ Log("list", s, 0, 0)
    /\ \E ok \in BOOLEAN, order \in Orders :
        LET containers == Listing({r \in rt : r.Service = s /\ ~r.OneOff}, order)
            targets == startTargets(containers)
        IN IF ok
           THEN /\ eg' = [eg EXCEPT ![s] =
                            [i \in DOMAIN targets |->
                               Task("start", "starting", targets[i], NoName, 0)]]
                /\ conv' = [conv EXCEPT ![s] =
                              [NoConv EXCEPT !.ran = TRUE, !.ret = "wait",
                                             !.observed = containers]]
                /\ status' = [status EXCEPT ![s] = "running"]
           ELSE /\ status' = [status EXCEPT ![s] = "failed"]
                /\ UNCHANGED <<eg, conv>>
    /\ UNCHANGED <<project, rt, nextID, cState, recreate, calls, events, pass, fresh,
                   repeat, prevOk, assigned, opts, wait, wd>>

\* one goroutine of startService (lines 488-496); its calls use the context
\* of the group (line 482), which the first failed goroutine cancels
StartContainer(s, i) ==
    /\ i \in DOMAIN eg[s]
    /\ eg[s][i].pc = "starting"
    /\ \E ok \in BOOLEAN :
        LET t == eg[s][i]
            success == ok /\ InRuntime(t.c.ID) /\ ~AnyFailed(s)
        IN /\ Log("start", s, t.c.ID, t.c.ID)
           /\ rt' = IF success
                    THEN {IF r.ID = t.c.ID THEN [r EXCEPT !.State = ContainerRunning]
                          ELSE r : r \in rt}
                    ELSE rt
           /\ SetTask(s, i, IF ~success THEN Fail(t) ELSE [t EXCEPT !.pc = "done"])
           /\ events' = events \cup {<<getContainerProgressName(t.c), "Starting">>}
                           \cup (IF success
                                 THEN {<<getContainerProgressName(t.c), "Started">>}
                                 ELSE {})
    /\ UNCHANGED <<project, nextID, cState, recreate, status, calls, conv, pass, fresh,
                   repeat, prevOk, assigned, opts, wait, wd>>

\* service C waits for A (healthy or completed) and for B (started)
StartProjects ==
    {[n \in Names3 |->
        IF n = "C"
        THEN [Config("C", {"A", "B"}, 0, NoReplicas, "") EXCEPT
                 !.Condition = [d \in {"A", "B"} |->
                                   IF d = "A" THEN ca ELSE ServiceConditionStarted]]
        ELSE Config(n, {}, 0, NoReplicas, "")] :
       ca \in {ServiceConditionHealthy, ServiceConditionCompletedSuccessfully}}

\* the containers of C: one running or not, one stopped, one one-off
StartRuntimes ==
    {{[Ctr(1, "A", 1, "h2", ContainerRunning) EXCEPT !.Health = h],
      Ctr(2, "B", 1, "h2", ContainerRunning),
      Ctr(3, "C", 1, "h2", st1),
      Ctr(4, "C", 2, "h2", st2),
      [OneOffContainer(5, "C") EXCEPT !.State = ContainerExited]} :
       h \in {"", Unhealthy},
       st1 \in {ContainerRunning, ContainerCreated},
       st2 \in {ContainerExited, ContainerPaused}}

InitStart ==
    /\ project \in StartProjects
    /\ rt \in StartRuntimes
    /\ nextID = 6
    /\ cState = Listing(rt, "asc")
    /\ recreate = RecreateNever
    /\ status = [n \in Services |-> "pending"]
    /\ calls = [n \in Services |-> 0]
    /\ eg = [n \in Services |-> <<>>]
    /\ conv = [n \in Services |-> NoConv]
    /\ apiLog = {}
    /\ events = {}
    /\ pass = 1
    /\ fresh = TRUE
    /\ repeat = FALSE
    /\ prevOk = [n \in Services |-> FALSE]
    /\ assigned = [n \in Services |-> {}]
    /\ opts = {}
    /\ wait = [d \in project["C"].DependsOn |-> NoWait]
    /\ wd = ""

NextStart ==
    \/ \E dep \in Services : Poll("C", dep)
    \/ WaitDependenciesReturns
    \/ \E id \in 1..2 : HealthChanges(id)
    \/ \E id \in 1..2, code \in {0, 1} : ContainerExits(id, code)
    \/ StartServiceFails("C")
    \/ StartServiceList("C")
    \/ \E i \in 1..(MaxScale + 1) : StartContainer("C", i)
    \/ WaitReturns("C")

SpecStart == InitStart /\ [][NextStart]_vars

(***************************************************************************)
(* Properties.                                                             *)
(***************************************************************************)
Tasks(s) == {eg[s][i] : i \in DOMAIN eg[s]}
Numbers(seq) == {seq[i].Number : i \in DOMAIN seq}
\* the service's callback ran ensureScale without error in this operation
Scaled(s) == conv[s].ran /\ conv[s].ret # "err"
\* a scale-up task of s has created its container
CreatedByScale(s) == {t \in Tasks(s) : t.kind = "create" /\ t.newID # 0}
\* the runtime calls that act on a container as a recreation does
RecreateOps == {"stop", "rename", "create", "remove"}
\* the container is scheduled for recreation by the service's callback
ScheduledRecreate(s, c) == \E t \in Tasks(s) : t.kind = "recreate" /\ t.c = c

\* C2 as stated: in an operation that starts from a snapshot of the
\* containers that exist, every container created by scale reconciliation
\* has a number greater than every number ever given to a container of the
\* service, removed containers included.
C2_NeverReused ==
    \A s \in Services :
        (fresh /\ Scaled(s)) =>
            \A t \in CreatedByScale(s) : \A n \in conv[s].ever : t.number > n

\* C2 amended: every creation that scale reconciliation schedules is given
\* a number greater than the number of every non-one-off container of the
\* service in the snapshot the reconciliation started from, and the numbers
\* given by one reconciliation are pairwise different.
C2_AboveObserved ==
    \A s \in Services :
        Scaled(s) =>
            /\ \A t \in Tasks(s) :
                  t.kind = "create" =>
                      \A n \in Numbers(conv[s].observed) : t.number > n
            /\ \A i, j \in DOMAIN eg[s] :
                  (i # j /\ eg[s][i].kind = "create" /\ eg[s][j].kind = "create")
                      => eg[s][i].number # eg[s][j].number

\* a later reconciliation created a container above a non-empty snapshot
\* with a number that an earlier, since removed container had
C2_Witness ==
    \E s \in Services :
        /\ pass > 1 /\ fresh /\ Scaled(s)
        /\ conv[s].observed # <<>>
        /\ \E t \in CreatedByScale(s) : t.number \in conv[s].ever

\* C3: when ensureScale runs a second time for a service with the same
\* inputs, after all tasks of the first run completed successfully, the
\* second run schedules no creation and no stop/removal.
C3_Idempotent ==
    \A s \in Services :
        (pass > 1 /\ repeat /\ prevOk[s] /\ Scaled(s)) =>
            \A t \in Tasks(s) : t.kind \notin {"create", "remove"}

\* C4: under policy if-changed (diverged) or force, a retained container is
\* scheduled for recreation exactly when its hash label differs from the
\* service hash, or the policy is force, or the cascade flag is set; a
\* container that is not gets no stop, rename, create or remove call, and
\* when it is running the only event written for it is "Running".
C4_RecreateDecision ==
    \A s \in Services :
        (Scaled(s) /\ conv[s].policy \in {RecreateDiverged, RecreateForce}) =>
            \A c \in Range(conv[s].retained) :
                LET must == \/ c.Hash # conv[s].expected
                            \/ conv[s].policy = RecreateForce
                            \/ conv[s].flag = forceRecreate
                IN /\ ScheduledRecreate(s, c) <=> must
                   /\ ~must =>
                        /\ \A a \in apiLog : a.of = c.ID => a.op \notin RecreateOps
                        /\ c.State = ContainerRunning =>
                             {e \in events : e[1] = getContainerProgressName(c)}
                                = {<<getContainerProgressName(c), "Running">>}

\* a running container with a matching hash was kept under if-changed while
\* the operation issued runtime calls for other containers
C4_Witness ==
    \E s \in Services :
        /\ Scaled(s) /\ conv[s].policy = RecreateDiverged
        /\ \E c \in Range(conv[s].retained) :
              /\ c.Hash = conv[s].expected /\ conv[s].flag # forceRecreate
              /\ c.State = ContainerRunning
              /\ ~ScheduledRecreate(s, c)
        /\ \E c \in Range(conv[s].retained) : ScheduledRecreate(s, c)
        /\ \E a \in apiLog : a.svc = s /\ a.op = "remove"

\* C5: once recreateContainer has returned nil, the replacement exists with
\* the number and the canonical name of the original, and no container of
\* the runtime has the original's ID.
C5_RecreatePreserves ==
    \A s \in Services :
        \A t \in Tasks(s) :
            (t.kind = "recreate" /\ Finished(t) /\ ~t.err) =>
                /\ \E r \in rt : /\ r.ID = t.newID
                                 /\ r.Service = s
                                 /\ r.Number = t.c.Number
                                 /\ r.Name = getCanonicalContainerName(t.c)
                /\ ~InRuntime(t.c.ID)
                /\ t.newID # t.c.ID

C5_Witness ==
    \E s \in Services :
        \E t \in Tasks(s) : t.kind = "recreate" /\ Finished(t) /\ ~t.err

\* C6: when a container of a service A was recreated successfully and B
\* depends on A, the ensureService of B that the executor runs afterwards
\* (policy if-changed or force) schedules the recreation of every retained
\* container of B, whatever its hash.
C6_Cascade ==
    \A b \in Services :
        \A a \in project[b].DependsOn :
            ( /\ \E t \in Tasks(a) : t.kind = "recreate" /\ Finished(t) /\ ~t.err
              /\ Scaled(b)
              /\ conv[b].policy \in {RecreateDiverged, RecreateForce} )
            => \A c \in Range(conv[b].retained) : ScheduledRecreate(b, c)

\* B's container has the hash of B's configuration and is recreated under
\* if-changed after a recreation in A
C6_Witness ==
    \E b \in Services :
        \E a \in project[b].DependsOn :
            /\ \E t \in Tasks(a) : t.kind = "recreate" /\ Finished(t) /\ ~t.err
            /\ Scaled(b) /\ conv[b].policy = RecreateDiverged
            /\ \E c \in Range(conv[b].retained) :
                  c.Hash = conv[b].expected /\ ScheduledRecreate(b, c)

\* C7: a service whose computed scale exceeds 1 and that sets container_name
\* makes its callback fail in ensureScale with no task scheduled and no
\* runtime call issued for the service.
C7_FixedNameRejected ==
    \A s \in Services :
        ( /\ conv[s].ran
          /\ computedScale(project[s]) > 1
          /\ project[s].ContainerName # "" )
        => /\ conv[s].ret = "err"
           /\ status[s] = "failed"
           /\ eg[s] = <<>>
           /\ \A a \in apiLog : a.svc # s

\* the rejection happened with two, and with no, containers observed
C7_Witness ==
    \E s \in Services :
        /\ conv[s].ran /\ conv[s].ret = "err"
        /\ computedScale(project[s]) > 1 /\ project[s].ContainerName # ""
        /\ Len(conv[s].observed) = 2

\* C10: whatever the policy, once ensureService has returned, every creation
\* and removal task of its scale reconciliation has finished, and it has
\* returned an error if one of them failed.
C10_ScaleAwaited ==
    \A s \in Services :
        (conv[s].ran /\ status[s] \in {"done", "failed"}) =>
            \A t \in Tasks(s) :
                t.kind \in {"create", "remove"} =>
                    /\ Finished(t)
                    /\ t.err => status[s] = "failed"

\* C1: the executor invokes the callback of a service at most once, and
\* exactly once for every service when the operation returns nil; when the
\* callback of a dependent has begun, the callback of each of its
\* dependencies has returned nil; and when a restart has been issued for a
\* container of a dependent, every restart task of each dependency that is a
\* target has finished.
C1_DependencyOrder ==
    /\ \A s \in Services : calls[s] <= 1
    /\ (\A s \in Services : status[s] = "done") => \A s \in Services : calls[s] = 1
    /\ \A s \in Services :
          \A d \in project[s].DependsOn :
              /\ status[s] # "pending" => (status[d] = "done" /\ calls[d] = 1)
              /\ (\E a \in apiLog : a.op = "restart" /\ a.svc = s) =>
                    /\ d \in restartTargets =>
                          Len(eg[d]) = Len(filter(cState, LAMBDA c : isService(d, c)))
                    /\ \A t \in Tasks(d) : Finished(t)

\* a container of a dependent was restarted after both containers of its
\* dependency were, in a chain of three services
C1_Witness ==
    /\ "A" \in project["B"].DependsOn
    /\ "B" \in project["C"].DependsOn
    /\ \A s \in Services : status[s] = "done" /\ calls[s] = 1
    /\ \E a \in apiLog : a.op = "restart" /\ a.svc = "C"
    /\ Cardinality({a \in apiLog : a.op = "restart" /\ a.svc = "A"}) = 2

\* the containers of a dependency that count for its completion and exited
ExitedOf(dep) ==
    {r \in rt : r.Service = dep /\ ~r.OneOff /\ r.State = ContainerExited}

\* C8: a wait for completed-successfully returns nil only when a container
\* of the dependency has exited with code 0, returns its own error only when
\* one has exited with a nonzero code, the error naming the dependency and
\* that code; while no container has exited it goes on polling (unless a
\* runtime call of the poll itself fails, which is returned as it is).
C8_CompletedWait ==
    \A s \in Services :
        \A dep \in DOMAIN wait \cap project[s].DependsOn :
            project[s].Condition[dep] = ServiceConditionCompletedSuccessfully =>
                LET w == wait[dep]
                IN /\ w.result = "nil" => \E r \in ExitedOf(dep) : r.ExitCode = 0
                   /\ (w.result = "err" /\ w.err # ApiError) =>
                         /\ w.err.kind = "didn't completed successfully"
                         /\ w.err.dep = dep
                         /\ w.err.code # 0
                         /\ \E r \in ExitedOf(dep) : r.ExitCode = w.err.code
                   /\ (ExitedOf(dep) = {} /\ w.err # ApiError) =>
                         (w.pc = "polling" /\ w.result = "")

\* a wait ended with the error of exit code 1 while the dependency's other
\* container is still running
C8_Witness ==
    \E s \in Services :
        \E dep \in DOMAIN wait \cap project[s].DependsOn :
            /\ project[s].Condition[dep] = ServiceConditionCompletedSuccessfully
            /\ wait[dep].result = "err"
            /\ wait[dep].err.code = 1
            /\ \E r \in rt : r.Service = dep /\ ~r.OneOff /\ r.State = ContainerRunning

\* C9: when the listing of a poll of a healthy wait holds a container that
\* has no healthcheck, that poll ends the wait with an error.
C9_NoHealthcheckFatal ==
    \A s \in Services :
        \A dep \in DOMAIN wait \cap project[s].DependsOn :
            ( /\ project[s].Condition[dep] = ServiceConditionHealthy
              /\ wait[dep].polled
              /\ wait[dep].listedNoHealthcheck )
            => (wait[dep].pc = "done" /\ wait[dep].result = "err")

\* the dependency waits that ended with a fatal dependency-condition error
FatalWaits ==
    {dep \in DOMAIN wait :
        /\ wait[dep].result = "err"
        /\ wait[dep].err.kind \in {"no healthcheck configured",
                                   "didn't completed successfully"}}

\* C11: once a dependency wait of the group has failed fatally, every
\* sibling wait stops polling and waitDependencies eventually returns the
\* error, even when the condition of a sibling is never satisfied.
C11_FailureCancelsGroup ==
    (FatalWaits # {}) ~> (wd = "err" /\ \A dep \in DOMAIN wait : wait[dep].pc = "done")

\* the runtime calls that change the lifecycle of a container
LifecycleOps == {"stop", "start", "restart", "rename", "remove"}
\* the containers the operation knows: the runtime's and the snapshot's
Known == rt \cup Range(cState)

\* C12: no stop, start, restart, rename or remove call is issued for a
\* container that carries the one-off marker, and no one-off container is
\* among the containers scale reconciliation observes for a service.
C12_OneOffExcluded ==
    /\ \A a \in apiLog :
          a.op \in LifecycleOps => \A r \in Known : r.ID = a.id => ~r.OneOff
    /\ \A s \in Services : \A c \in Range(conv[s].observed) : ~c.OneOff

\* the listed container c of s was not running when startService listed it
ListedStopped(s) == {c \in Range(conv[s].observed) : c.State # ContainerRunning}

\* C13: no container of the dependent is listed or started before every
\* dependency wait has returned nil; when a wait fails startService returns
\* the error with no container listed and no start issued; when the waits
\* succeeded and the listing was answered, exactly one starting goroutine
\* exists for each listed (non-one-off) container that was not running, it
\* has issued its start once startService has returned, and no start is
\* issued for a running or a one-off container.
C13_StartAfterWaits ==
    \A s \in Services :
        /\ (conv[s].ran \/ \E a \in apiLog : a.svc = s) =>
              /\ wd = "nil"
              /\ \A dep \in project[s].DependsOn : wait[dep].result = "nil"
        /\ wd = "err" =>
              /\ status[s] \in {"pending", "failed"}
              /\ eg[s] = <<>>
              /\ \A a \in apiLog : a.svc # s
        /\ status[s] = "done" => wd = "nil"
        /\ conv[s].ran =>
              /\ \A c \in Range(conv[s].observed) : c.Service = s /\ ~c.OneOff
              /\ \A r \in rt :
                    (r.Service = s /\ ~r.OneOff) =>
                        \E c \in Range(conv[s].observed) : c.ID = r.ID
              /\ \A c \in ListedStopped(s) :
                    /\ Cardinality({i \in DOMAIN eg[s] : eg[s][i].c.ID = c.ID}) = 1
                    /\ status[s] \in {"done", "failed"} =>
                          Call("start", s, c.ID, c.ID) \in apiLog
              /\ \A a \in apiLog :
                    a.op = "start" => \E c \in ListedStopped(s) : c.ID = a.id
              /\ Len(eg[s]) = Cardinality(ListedStopped(s))

\* startService returned nil after a wait that had to poll more than once:
\* the stopped container was started, the running one and the one-off one
\* were not
C13_Witness ==
    /\ status["C"] = "done"
    /\ \E r \in rt : r.Service = "A" /\ r.Health = Healthy
    /\ \E c \in Range(conv["C"].observed) : c.State = ContainerRunning
    /\ \E r \in rt : r.Service = "C" /\ r.OneOff /\ r.State = ContainerExited
    /\ Cardinality({a \in apiLog : a.op = "start" /\ a.svc = "C"}) = 1

\* the tasks of s that removed their container from the runtime: finished
\* scale-down tasks and finished recreations
Removed(s) ==
    {t \in Tasks(s) : t.kind \in {"remove", "recreate"} /\ Finished(t) /\ ~t.err}

\* C14: a container the engine has removed from the runtime (scale-down or
\* the end of a recreation) is no longer in the Container State Snapshot.
C14_SnapshotDropsRemoved ==
    \A s \in Services :
        \A t \in Removed(s) :
            /\ ~InRuntime(t.c.ID)
            /\ \A c \in Range(cState) : c.ID # t.c.ID

\* C15: when the scale computed from the scale and deploy-replicas fields is
\* 0 or less, the service's scale reconciliation returns an error, schedules
\* no task and issues no runtime call.
C15_ZeroScaleRejected ==
    \A s \in Services :
        (conv[s].ran /\ computedScale(project[s]) <= 0) =>
            /\ conv[s].ret = "err"
            /\ eg[s] = <<>>
            /\ \A a \in apiLog : a.svc # s

\* the runtime calls of recreateContainer, in the order of its code
Protocol == <<"stop", "rename", "create", "inspect", "connect", "remove">>
\* the calls issued so far by the recreation of container c of service s
OpsOf(s, c) == {a.op : a \in {x \in apiLog : x.svc = s /\ x.of = c.ID}}
Recreations(s) == {t \in Tasks(s) : t.kind = "recreate"}
RecreatedEvent(c) == <<getContainerProgressName(c), "Recreated">>

\* C16: the calls a recreation has issued are always a prefix of stop,
\* rename, create (with inspect and connect), remove, each issued only after
\* the one before it succeeded; a recreation that failed has issued nothing
\* after the failed call, has not removed the old container and has written
\* no recreated event; the old container is removed only when its
\* replacement exists; the recreated event is written only when the old
\* container is removed, and the cascade flag of a dependent is set only
\* when a container of one of its dependencies was removed by a recreation.
C16_RecreateProtocol ==
    /\ \A s \in Services :
        \A t \in Recreations(s) :
            LET ops == OpsOf(s, t.c)
                old == {r \in rt : r.ID = t.c.ID}
            IN /\ \E k \in 0..Len(Protocol) :
                    /\ ops = {Protocol[j] : j \in 1..k}
                    /\ k >= 2 => \A r \in old : r.State = ContainerExited
                    /\ k >= 3 => \A r \in old :
                                    r.Name = tmpName(t.c, getCanonicalContainerName(t.c))
                    /\ k >= 4 => t.newID # 0 /\ InRuntime(t.newID)
                    /\ t.err => t.pc = "done" /\ k >= 1
                    /\ (t.pc # "done") => Protocol[k + 1] = t.pc
               /\ old = {} => /\ t.newID # 0 /\ InRuntime(t.newID)
                              /\ "remove" \in ops
                              /\ Finished(t) /\ ~t.err
               /\ t.err => old # {} /\ RecreatedEvent(t.c) \notin events
               /\ RecreatedEvent(t.c) \in events <=> old = {}
    /\ \A b \in Services :
          project[b].Extensions[extLifecycle] = forceRecreate =>
              \E a \in project[b].DependsOn :
                  \E t \in Recreations(a) : Finished(t) /\ ~t.err /\ ~InRuntime(t.c.ID)

\* one recreation of A failed at the creation of the replacement, leaving
\* the old container stopped under its temporary name, while a sibling
\* recreation went through and set the flag of B
C16_Witness ==
    /\ \E t \in Recreations("A") :
          /\ t.err /\ OpsOf("A", t.c) = {"stop", "rename", "create"}
          /\ \E r \in rt : r.ID = t.c.ID /\ r.Name.tmp = t.c.ID
    /\ \E t \in Recreations("A") :
          Finished(t) /\ ~t.err /\ RecreatedEvent(t.c) \in events
    /\ project["B"].Extensions[extLifecycle] = forceRecreate

\* the containers of s that exist in the runtime
Existing(s) == {r \in rt : r.Service = s}

\* C17 as stated: in every state no two existing containers of a service
\* carry the same container number.
C17_UniqueNumbers ==
    \A s \in Services :
        \A r1, r2 \in Existing(s) : r1.Number = r2.Number => r1 = r2

\* r1 is the old container of a recreation, under its temporary name, and
\* r2 is the replacement created for it
ReplacementOf(s, r1, r2) ==
    \E t \in Recreations(s) :
        /\ t.c.ID = r1.ID /\ t.newID = r2.ID
        /\ r1.Name = tmpName(t.c, getCanonicalContainerName(t.c))
        /\ r2.Name = getCanonicalContainerName(t.c)

\* C17 amended: two existing containers of a service carry the same number
\* only when one is the old container of a recreation, renamed to its
\* temporary name and not yet (or, after a failed removal, never) removed,
\* and the other is its replacement; the containers under a canonical name
\* have pairwise different numbers.
C17_UniqueButReplacement ==
    \A s \in Services :
        \A r1, r2 \in Existing(s) :
            (r1.Number = r2.Number /\ r1 # r2) =>
                ReplacementOf(s, r1, r2) \/ ReplacementOf(s, r2, r1)

\* a scale-up creation and a recreation of the same service ran together:
\* the old container and its replacement both exist with number 1 after the
\* removal failed, next to the new replica number 2
C17_Witness ==
    \E t \in Recreations("A") :
        /\ t.err /\ "remove" \in OpsOf("A", t.c)
        /\ InRuntime(t.c.ID) /\ InRuntime(t.newID)
        /\ \E u \in CreatedByScale("A") : InRuntime(u.newID) /\ u.number # t.c.Number

\* the goroutines of the running operation
Goroutines == {<<s, i>> : s \in Services, i \in 1..(2 * (MaxScale + 1))}

\* C18: no two goroutines are about to write the cascade flag of the same
\* service at the same time, and no callback reads the flag of its service
\* while a goroutine is about to write it.
C18_FlagNeedsNoLock ==
    /\ \A g, h \in Goroutines :
          ( /\ g # h
            /\ AboutToSetLifecycle(g[1], g[2])
            /\ AboutToSetLifecycle(h[1], h[2]) )
          => flagWrites(project, g[1]) \cap flagWrites(project, h[1]) = {}
    /\ \A g \in Goroutines :
          AboutToSetLifecycle(g[1], g[2]) =>
              \A b \in flagWrites(project, g[1]) : status[b] = "pending"

\* C19: no two goroutines are about to Add to the snapshot at the same time.
C19_AddSerialized ==
    \A g, h \in Goroutines :
        (g # h /\ AboutToAdd(g[1], g[2])) => ~AboutToAdd(h[1], h[2])

\* goroutine g issues its ContainerCreate in this step
IssuesCreate(g) ==
    LET s == g[1]
        i == g[2]
    IN /\ i \in DOMAIN eg[s]
       /\ i \in DOMAIN eg'[s]
       /\ eg[s][i].pc = "create"
       /\ eg'[s][i].pc # "create"

\* C20: every create call, of a scale-up creation or of a recreation, is
\* issued under a name that no existing container holds at that moment.
C20_CreateUnderFreeName ==
    [][\A g \in Goroutines : IssuesCreate(g) => ~NameTaken(eg[g[1]][g[2]].name)]_vars

\* a scale-up creation and a recreation of A are both under way with their
\* containers created: the old container holds its temporary name, the
\* replacement its canonical name, the new replica a higher number
C20_Witness ==
    \E t \in Recreations("A") :
        \E u \in CreatedByScale("A") :
            /\ t.newID # 0 /\ ~Finished(t) /\ ~Finished(u)
            /\ \E r \in rt : r.ID = t.c.ID /\ r.Name.tmp = t.c.ID
            /\ \E r \in rt : r.ID = t.newID /\ r.Name = getCanonicalContainerName(t.c)
            /\ \E r \in rt : r.ID = u.newID /\ r.Name.num > t.c.Number

====
